---------------------------- MODULE Spec2Model ----------------------------
(***************************************************************************)
(* The document-indexing pipeline of vaspgo.rag:                           *)
(*   rag_indexer.py  DocumentIndexer (fetch with fallback and retry,       *)
(*                   heading-aware segmentation, token-budget packing,     *)
(*                   index_documents)                                      *)
(*   rag_memory.py   get_indexed_sources, initialize_vasp_rag_memory       *)
(*                                                                         *)
(* A text is a sequence of one-character strings, so that splitlines,      *)
(* strip, len and the len // 4 token estimate are computed as the code     *)
(* computes them.                                                          *)
(***************************************************************************)
EXTENDS Integers, Sequences, FiniteSets, TLC

(***************************************************************************)
(* Bounds of the model.                                                    *)
(***************************************************************************)
\* chunk_tokens of the DocumentIndexer ranges over 1..MaxChunkTokens
MaxChunkTokens == 2
\* overlap_tokens of the DocumentIndexer ranges over 0..MaxOverlapTokens
MaxOverlapTokens == 1
\* emitted chunks are recorded up to this many entries (see EmitChunk)
MaxChunks == 4

(***************************************************************************)
(* Python values.                                                          *)
(***************************************************************************)
\* Optional[str]: None, or a string (which may be the empty string)
None == [some |-> FALSE, text |-> <<>>]

Some(t) == [some |-> TRUE, text |-> t]

\* Python truthiness of an Optional[str]: None and "" are falsy
Truthy(v) == v.some /\ v.text # <<>>

Max(a, b) == IF a >= b THEN a ELSE b

Min(a, b) == IF a <= b THEN a ELSE b

RECURSIVE Pow2(_)
\* 2 ** n
Pow2(n) == IF n = 0 THEN 1 ELSE 2 * Pow2(n - 1)

\* str.isspace for one character
IsSpace(c) == c \in {" ", "\n", "\t"}

RECURSIVE LStrip(_)
LStrip(s) == IF s = <<>> THEN <<>> ELSE IF IsSpace(Head(s)) THEN LStrip(Tail(s)) ELSE s

RECURSIVE RStrip(_)
RStrip(s) ==
    IF s = <<>> THEN <<>>
    ELSE IF IsSpace(s[Len(s)]) THEN RStrip(SubSeq(s, 1, Len(s) - 1)) ELSE s

\* str.strip()
Strip(s) == RStrip(LStrip(s))

RECURSIVE LStripHash(_)
\* str.lstrip('#')
LStripHash(s) == IF s = <<>> THEN <<>> ELSE IF Head(s) = "#" THEN LStripHash(Tail(s)) ELSE s

RECURSIVE SplitLinesAcc(_, _)
SplitLinesAcc(text, line) ==
    IF text = <<>> THEN (IF line = <<>> THEN <<>> ELSE <<line>>)
    ELSE IF Head(text) = "\n" THEN <<line>> \o SplitLinesAcc(Tail(text), <<>>)
    ELSE SplitLinesAcc(Tail(text), Append(line, Head(text)))

\* str.splitlines(): no empty last line after a final line terminator
SplitLines(text) == SplitLinesAcc(text, <<>>)

RECURSIVE Join(_, _)
\* sep.join(parts)
Join(parts, sep) ==
    IF parts = <<>> THEN <<>>
    ELSE IF Len(parts) = 1 THEN parts[1]
    ELSE parts[1] \o sep \o Join(Tail(parts), sep)

(***************************************************************************)
(* _strip_html, for texts without script/style elements and entities.     *)
(***************************************************************************)
\* index of the first ">" at or after position n of s, 0 when there is none
RECURSIVE FindGt(_, _)
FindGt(s, n) == IF n > Len(s) THEN 0 ELSE IF s[n] = ">" THEN n ELSE FindGt(s, n + 1)

RECURSIVE RemoveTags(_)
\* re.sub(r'<[^>]+>', '', s)
RemoveTags(s) ==
    IF s = <<>> THEN <<>>
    ELSE IF Head(s) = "<" /\ FindGt(s, 2) > 2
         THEN RemoveTags(SubSeq(s, FindGt(s, 2) + 1, Len(s)))
         ELSE <<Head(s)>> \o RemoveTags(Tail(s))

RECURSIVE CollapseSpace(_)
\* re.sub(r'\s+', ' ', s)
CollapseSpace(s) ==
    IF s = <<>> THEN <<>>
    ELSE IF IsSpace(Head(s)) THEN <<" ">> \o CollapseSpace(LStrip(s))
    ELSE <<Head(s)>> \o CollapseSpace(Tail(s))

StripHtml(html_content) == Strip(CollapseSpace(RemoveTags(html_content)))

(***************************************************************************)
(* _approx_token_len and the "or 1" of its callers.                        *)
(***************************************************************************)
\* an approximation that rounds up instead of down
ApproxTokenLenRoundsUp(text) == IF text = <<>> THEN 0 ELSE (Len(text) + 3) \div 4

ApproxTokenLen(text) == IF text = <<>> THEN 0 ELSE Len(text) \div 4

TokensOf(p) == IF ApproxTokenLen(p.content) = 0 THEN 1 ELSE ApproxTokenLen(p.content)

(***************************************************************************)
(* _split_paragraphs_with_headings.  The scan state is                     *)
(* [heading_stack, paragraphs, buf, char_pos].                             *)
(***************************************************************************)
\* flush_buf(end_pos): the paragraphs after the call (buf is left as it is)
FlushBuf(st, end_pos) ==
    LET content == Strip(Join(st.buf, <<"\n">>))
    IN  IF st.buf = <<>> \/ content = <<>> THEN st.paragraphs
        ELSE Append(st.paragraphs,
                    [content      |-> content,
                     heading_path |-> IF st.heading_stack # <<>>
                                      THEN Some(Join(st.heading_stack, <<" ", ">", " ">>))
                                      ELSE None,
                     start        |-> Max(0, end_pos - Len(content)),
                     end          |-> end_pos])

\* an iteration whose blank-line branch empties the buffer without flushing it
SegmentLineDropsAtBlank(st, raw) ==
    LET stripped == Strip(raw)
    IN  IF stripped # <<>> /\ Head(stripped) = "#"
        THEN LET lvl   == Len(stripped) - Len(LStripHash(stripped))
                 level == IF lvl <= 0 THEN 1 ELSE lvl
                 title == Strip(LStripHash(stripped))
                 stack == IF level <= Len(st.heading_stack)
                          THEN SubSeq(st.heading_stack, 1, level - 1)
                          ELSE st.heading_stack
             IN  [heading_stack |-> Append(stack, title),
                  paragraphs    |-> FlushBuf(st, st.char_pos),
                  buf           |-> st.buf,
                  char_pos      |-> st.char_pos + Len(raw) + 1]
        ELSE IF stripped = <<>>
        THEN [heading_stack |-> st.heading_stack,
              paragraphs    |-> st.paragraphs,
              buf           |-> <<>>,
              char_pos      |-> st.char_pos + Len(raw) + 1]
        ELSE [heading_stack |-> st.heading_stack,
              paragraphs    |-> st.paragraphs,
              buf           |-> Append(st.buf, raw),
              char_pos      |-> st.char_pos + Len(raw) + 1]

\* one iteration of "for ln in lines"
SegmentLine(st, raw) ==
    LET stripped == Strip(raw)
    IN  IF stripped # <<>> /\ Head(stripped) = "#"
        THEN LET lvl   == Len(stripped) - Len(LStripHash(stripped))
                 level == IF lvl <= 0 THEN 1 ELSE lvl
                 title == Strip(LStripHash(stripped))
                 stack == IF level <= Len(st.heading_stack)
                          THEN SubSeq(st.heading_stack, 1, level - 1)
                          ELSE st.heading_stack
             IN  [heading_stack |-> Append(stack, title),
                  paragraphs    |-> FlushBuf(st, st.char_pos),
                  buf           |-> st.buf,
                  char_pos      |-> st.char_pos + Len(raw) + 1]
        ELSE IF stripped = <<>>
        THEN [heading_stack |-> st.heading_stack,
              paragraphs    |-> FlushBuf(st, st.char_pos),
              buf           |-> <<>>,
              char_pos      |-> st.char_pos + Len(raw) + 1]
        ELSE [heading_stack |-> st.heading_stack,
              paragraphs    |-> st.paragraphs,
              buf           |-> Append(st.buf, raw),
              char_pos      |-> st.char_pos + Len(raw) + 1]

RECURSIVE SegmentLines(_, _)
SegmentLines(st, lines) ==
    IF lines = <<>> THEN st ELSE SegmentLines(SegmentLine(st, Head(lines)), Tail(lines))

\* a Segmenter that returns what the scan produced, without the fallback
SplitParagraphsNoFallback(text) ==
    LET st0  == [heading_stack |-> <<>>, paragraphs |-> <<>>, buf |-> <<>>, char_pos |-> 0]
        st   == SegmentLines(st0, SplitLines(text))
    IN  FlushBuf(st, st.char_pos)

SplitParagraphsWithHeadings(text) ==
    LET st0  == [heading_stack |-> <<>>, paragraphs |-> <<>>, buf |-> <<>>, char_pos |-> 0]
        st   == SegmentLines(st0, SplitLines(text))
        pars == FlushBuf(st, st.char_pos)
    IN  IF pars = <<>>
        THEN <<[content |-> text, heading_path |-> None, start |-> 0, end |-> Len(text)]>>
        ELSE pars

(***************************************************************************)
(* _chunk_paragraphs: the pieces of one loop iteration.                    *)
(***************************************************************************)
RECURSIVE FirstHeading(_)
\* the heading path of the first paragraph that has one
FirstHeading(ps) ==
    IF ps = <<>> THEN None
    ELSE IF Truthy(ps[1].heading_path) THEN ps[1].heading_path
    ELSE FirstHeading(Tail(ps))

RECURSIVE LastHeading(_)
\* next((x["heading_path"] for x in reversed(cur) if x.get("heading_path")), None)
LastHeading(ps) ==
    IF ps = <<>> THEN None
    ELSE IF Truthy(ps[Len(ps)].heading_path) THEN ps[Len(ps)].heading_path
    ELSE LastHeading(SubSeq(ps, 1, Len(ps) - 1))

\* the chunk dictionary built from the accumulation cur
MakeChunk(ps) ==
    [content      |-> Join([n \in 1..Len(ps) |-> ps[n].content], <<"\n", "\n">>),
     start        |-> ps[1].start,
     end          |-> ps[Len(ps)].end,
     heading_path |-> LastHeading(ps)]

RECURSIVE KeepOverlap(_, _, _, _)
\* "for x in reversed(cur)": n is the position scanned, kept the list so far
\* (in original order), kept_tokens its token sum
KeepOverlap(ps, n, kept, overlap) ==
    IF n = 0 THEN kept
    ELSE IF kept.tokens + TokensOf(ps[n]) > overlap THEN kept
    ELSE KeepOverlap(ps, n - 1,
                     [list |-> <<ps[n]>> \o kept.list, tokens |-> kept.tokens + TokensOf(ps[n])],
                     overlap)

\* an overlap section that carries at most the last paragraph
BuildOverlapLastOnly(ps, overlap) ==
    IF overlap > 0 /\ ps # <<>> /\ TokensOf(ps[Len(ps)]) <= overlap
    THEN [list |-> <<ps[Len(ps)]>>, tokens |-> TokensOf(ps[Len(ps)])]
    ELSE [list |-> <<>>, tokens |-> 0]

\* the overlap section: [list, tokens] carried into the next accumulation
BuildOverlap(ps, overlap) ==
    IF overlap > 0 /\ ps # <<>>
    THEN KeepOverlap(ps, Len(ps), [list |-> <<>>, tokens |-> 0], overlap)
    ELSE [list |-> <<>>, tokens |-> 0]

(***************************************************************************)
(* Sources and documents.                                                  *)
(***************************************************************************)
\* sources for which source.startswith(("http://", "https://")) holds
UrlSources == {"https://u1", "https://u2"}

\* Path(source).suffix.lower() of the local file sources
FileSuffix == [f \in {"doc.md", "page.log"} |-> IF f = "doc.md" THEN ".md" ELSE ".log"]

FileSources == DOMAIN FileSuffix

\* the hard-coded source list of initialize_vasp_rag_memory (32 wiki URLs in
\* the program, all of them web sources and pairwise distinct)
VaspSources == <<"https://u1", "https://u2">>

\* the source lists index_documents is called with directly
DirectBatches ==
    {<<>>, <<"doc.md", "page.log">>, <<"https://u2", "https://u2">>}

\* the texts a fetch stage, a conversion or a file read can deliver
Docs ==
    { <<>>,
      <<"#", " ", "h", "\n", "a", "\n", "\n", "b">>,
      <<"#", "\n", "a">>,
      <<"<", "b", ">", "a">> }

\* an except clause that catches every exception of an attempt
TransportErrorsAny == {"ClientError", "ServerError", "TimeoutError", "UnicodeDecodeError"}

\* aiohttp.ClientError, aiohttp.ServerError, asyncio.TimeoutError
TransportErrors == {"ClientError", "ServerError", "TimeoutError"}

\* a retry loop that allows one attempt more
MaxRetriesFour == 3 + 1

\* max_retries
MaxRetries == 3

\* collection.get(limit=10000)
QueryLimit == 10000

(***************************************************************************)
(* text_processor.is_supported_format                                      *)
(***************************************************************************)
SupportedExtensions ==
    {".html", ".htm", ".pdf", ".xlsx", ".xls", ".docx", ".doc", ".pptx", ".ppt",
     ".md", ".txt", ".csv", ".json", ".xml"}

IsSupportedFormat(source) == FileSuffix[source] \in SupportedExtensions

(***************************************************************************)
(* Outcomes of a fetch: a returned text or a raised exception.             *)
(***************************************************************************)
Returned(t) == [kind |-> "ok", text |-> t, exc |-> ""]

Raised(e) == [kind |-> "raise", text |-> <<>>, exc |-> e]

\* what the three stages of _fetch_url_content can do on one attempt
StageA ==
    {[raised |-> TRUE, result |-> None], [raised |-> FALSE, result |-> None]}
    \cup {[raised |-> FALSE, result |-> Some(t)] : t \in Docs}

StageB == {[raised |-> TRUE, text |-> <<>>]} \cup {[raised |-> FALSE, text |-> t] : t \in Docs}

StageC ==
    {[exc |-> e, html |-> FALSE, text |-> <<>>] : e \in TransportErrors \cup {"UnicodeDecodeError"}}
    \cup {[exc |-> "", html |-> h, text |-> t] : h \in BOOLEAN, t \in Docs}

\* _fetch_url_content: trafilatura, then markitdown, then aiohttp
FetchUrlContent(ra, rb, rc) ==
    IF ~ra.raised /\ Truthy(ra.result) THEN Returned(ra.result.text)
    ELSE IF ~rb.raised THEN Returned(rb.text)
    ELSE IF rc.exc # "" THEN Raised(rc.exc)
    ELSE IF rc.html THEN Returned(StripHtml(rc.text))
    ELSE Returned(rc.text)

\* everything one attempt of _fetch_url_content can do
UrlAttempts == {FetchUrlContent(ra, rb, rc) : ra \in StageA, rb \in StageB, rc \in StageC}

\* a backoff that counts the attempts from 1
WaitTimeFromOne(n) == Pow2(n + 1)

\* wait_time = 2 ** attempt
WaitTime(n) == Pow2(n)

\* html_pattern.search(content) after the "<" in content and ">" in content test
LooksLikeHtml(t) ==
    /\ \E n \in 1..Len(t) : t[n] = "<"
    /\ \E n \in 1..Len(t) : t[n] = ">"
    /\ RemoveTags(t) # t

\* what the file system and markitdown can do for a local file
FileEnv ==
    [exists : BOOLEAN, convert : StageB,
     read : {[raised |-> TRUE, text |-> <<>>]} \cup {[raised |-> FALSE, text |-> t] : t \in Docs}]

\* the file branch of _fetch_content
FetchFileContent(source, env) ==
    IF ~env.exists THEN Raised("FileNotFoundError")
    ELSE IF IsSupportedFormat(source)
    THEN (IF env.convert.raised THEN Raised("ValueError") ELSE Returned(env.convert.text))
    ELSE IF env.read.raised THEN Raised("UnicodeDecodeError")
    ELSE IF LooksLikeHtml(env.read.text)
    THEN (IF env.convert.raised THEN Returned(StripHtml(env.read.text))
          ELSE Returned(env.convert.text))
    ELSE Returned(env.read.text)

\* everything _fetch_content can do for a local file
FileFetches(f) == {FetchFileContent(f, env) : env \in FileEnv}

(***************************************************************************)
(* The memory store: the sequence of records added and not cleared.        *)
(***************************************************************************)
\* a record whose chunk_index counts from 1
MemoryRecordOneBased(src, n, chunk) ==
    [content          |-> chunk.content,
     source           |-> src,
     chunk_index      |-> n + 1,
     has_heading_path |-> Truthy(chunk.heading_path),
     heading_path     |-> IF Truthy(chunk.heading_path) THEN chunk.heading_path.text ELSE <<>>]

\* MemoryContent(content, TEXT, metadata) built for chunk number n (0-based)
MemoryRecord(src, n, chunk) ==
    [content          |-> chunk.content,
     source           |-> src,
     chunk_index      |-> n,
     has_heading_path |-> Truthy(chunk.heading_path),
     heading_path     |-> IF Truthy(chunk.heading_path) THEN chunk.heading_path.text ELSE <<>>]

\* a query that reads the first record only
IndexedSourcesOfFirst(st) == {st[n].source : n \in 1..Min(Len(st), 1)}

\* get_indexed_sources when the collection query succeeds
IndexedSources(st) == {st[n].source : n \in 1..Min(Len(st), QueryLimit)}

\* a filter that drops nothing
NewSourcesAll(srcs, indexed) == srcs

\* new_sources = [s for s in sources if s not in indexed_sources]
NewSources(srcs, indexed) == SelectSeq(srcs, LAMBDA s : s \notin indexed)

(***************************************************************************)
(* State.                                                                  *)
(***************************************************************************)
VARIABLES
    chunk_tokens,   \* DocumentIndexer.chunk_tokens
    overlap_tokens, \* DocumentIndexer.overlap_tokens
    store,          \* the records of the memory store, in the order added
    calls,          \* the calls made so far: their arguments, oldest first
    pc,             \* where the current call stands ("idle": none in progress)
    sources,        \* index_documents: the list being processed
    k,              \* index_documents: number of sources finished
    attempt,        \* _fetch_url_with_retry: attempt
    content,        \* index_documents: the fetched text
    paragraphs,     \* _chunk_paragraphs: paragraphs
    i,              \* _chunk_paragraphs: i
    cur,            \* _chunk_paragraphs: cur
    cur_tokens,     \* _chunk_paragraphs: cur_tokens
    chunks,         \* _chunk_paragraphs: chunks, then index_documents: chunks
    beyond,         \* _chunk_paragraphs: len(chunks) beyond MaxChunks, modulo 2
    j,              \* index_documents: number of chunks of the source added
    total_chunks,   \* index_documents: total_chunks
    err,            \* the exception caught at the "except Exception" clause
    result,         \* what the last finished call returned or raised
    fetch_log,      \* history: attempts and sleeps of the fetch in progress, kept
                    \* until the fetched text is split or the failure handled
    outcomes,       \* history: per source started in this call, what happened
    indexed_at_call, \* history: the sources with a record when the call was made
    query           \* history: what get_indexed_sources did in this call

vars ==
    <<chunk_tokens, overlap_tokens, store, calls, pc, sources, k, attempt, content,
      paragraphs, i, cur, cur_tokens, chunks, beyond, j, total_chunks, err, result,
      fetch_log, outcomes, indexed_at_call, query>>

config == <<chunk_tokens, overlap_tokens>>

packer == <<paragraphs, i, cur, cur_tokens, chunks, beyond>>

NoErr == [exc |-> "", at |-> ""]

NoResult == [kind |-> "none", value |-> 0]

\* the source of the current loop iteration
source == sources[k + 1]

\* the arguments of the call in progress (or of the last call)
call == calls[Len(calls)]

Init ==
    /\ chunk_tokens \in 1..MaxChunkTokens
    /\ overlap_tokens \in 0..MaxOverlapTokens
    /\ store = <<>>
    /\ calls = <<>>
    /\ pc = "idle"
    /\ sources = <<>>
    /\ k = 0
    /\ attempt = 0
    /\ content = <<>>
    /\ paragraphs = <<>>
    /\ i = 0
    /\ cur = <<>>
    /\ cur_tokens = 0
    /\ chunks = <<>>
    /\ beyond = 0
    /\ j = 0
    /\ total_chunks = 0
    /\ err = NoErr
    /\ result = NoResult
    /\ fetch_log = <<>>
    /\ outcomes = <<>>
    /\ indexed_at_call = {}
    /\ query = "none"

\* the locals of one loop iteration of index_documents, before it starts
ResetLocals ==
    /\ attempt' = 0
    /\ content' = <<>>
    /\ paragraphs' = <<>>
    /\ i' = 0
    /\ cur' = <<>>
    /\ cur_tokens' = 0
    /\ chunks' = <<>>
    /\ beyond' = 0
    /\ j' = 0
    /\ err' = NoErr
    /\ fetch_log' = <<>>

\* a call starts: history of the call
BeginCall(fn, clear_existing, skip_indexed) ==
    /\ pc = "idle"
    /\ calls' = Append(calls, [fn |-> fn, clear_existing |-> clear_existing,
                               skip_indexed |-> skip_indexed])
    /\ indexed_at_call' = {store[n].source : n \in 1..Len(store)}
    /\ outcomes' = <<>>
    /\ query' = "none"
    /\ result' = NoResult
    /\ k' = 0
    /\ total_chunks' = 0

(***************************************************************************)
(* initialize_vasp_rag_memory                                              *)
(***************************************************************************)
\* the call, up to its first await
InitializeCall ==
    \E clear_existing \in BOOLEAN, skip_indexed \in BOOLEAN :
        /\ BeginCall("initialize_vasp_rag_memory", clear_existing, skip_indexed)
        /\ sources' = VaspSources
        /\ pc' = IF clear_existing THEN "clear" ELSE IF skip_indexed THEN "filter" ELSE "loop"
        /\ ResetLocals
        /\ UNCHANGED <<config, store>>

\* initialize_vasp_rag_memory is called on the new, empty store
InitializeVaspRagMemory == calls = <<>> /\ InitializeCall

\* initialize_vasp_rag_memory is called again, on the store the first call left
InitializeAgain == Len(calls) = 1 /\ InitializeCall

\* a clear that returns and leaves the records in place
ClearExistingKeepsRecords ==
    /\ pc = "clear"
    /\ store' = store
    /\ pc' = "loop"
    /\ UNCHANGED <<config, calls, sources, k, attempt, content, packer, j, total_chunks,
                   err, result, fetch_log, outcomes, indexed_at_call, query>>

\* await rag_memory.clear() returns
ClearExisting ==
    /\ pc = "clear"
    /\ store' = <<>>
    /\ pc' = "loop"
    /\ UNCHANGED <<config, calls, sources, k, attempt, content, packer, j, total_chunks,
                   err, result, fetch_log, outcomes, indexed_at_call, query>>

\* await rag_memory.clear() raises: the call ends with the exception
ClearRaises ==
    /\ pc = "clear"
    /\ result' = [kind |-> "raise", value |-> 0]
    /\ pc' = "idle"
    /\ UNCHANGED <<config, store, calls, sources, k, attempt, content, packer, j, total_chunks,
                   err, fetch_log, outcomes, indexed_at_call, query>>

\* the "Filter out already indexed sources" block; ok: the collection query
\* succeeded (otherwise get_indexed_sources returns the empty set)
FilterIndexed ==
    \E ok \in BOOLEAN :
        LET indexed_sources == IF ok THEN IndexedSources(store) ELSE {}
            new_sources     == NewSources(sources, indexed_sources)
        IN  /\ pc = "filter"
            /\ query' = IF ok THEN "ok" ELSE "failed"
            /\ sources' = new_sources
            /\ IF new_sources # <<>>
               THEN /\ pc' = "loop"
                    /\ result' = result
               ELSE /\ pc' = "idle"
                    /\ result' = [kind |-> "return", value |-> 0]
            /\ UNCHANGED <<config, store, calls, k, attempt, content, packer, j,
                           total_chunks, err, fetch_log, outcomes, indexed_at_call>>

(***************************************************************************)
(* index_documents                                                         *)
(***************************************************************************)
\* a direct call of index_documents
IndexDocuments ==
    \E srcs \in DirectBatches :
        /\ calls = <<>>
        /\ BeginCall("index_documents", FALSE, FALSE)
        /\ sources' = srcs
        /\ pc' = "loop"
        /\ ResetLocals
        /\ UNCHANGED <<config, store>>

\* a loop that takes the next source while chunks of the current one are
\* still to be added
NextSourceWhileAdding ==
    /\ \/ /\ pc = "loop"
          /\ k < Len(sources)
          /\ k' = k
          /\ outcomes' = Append(outcomes, [source |-> source, status |-> "started",
                                           chunks |-> 0, added |-> 0])
       \/ /\ pc = "add"
          /\ j < Len(chunks)
          /\ k + 1 < Len(sources)
          /\ k' = k + 1
          /\ outcomes' = Append(outcomes, [source |-> sources[k + 2], status |-> "started",
                                           chunks |-> 0, added |-> 0])
    /\ pc' = "fetch"
    /\ UNCHANGED <<config, store, calls, sources, attempt, content, packer, j,
                   total_chunks, err, result, fetch_log, indexed_at_call, query>>

\* "for source in sources": the next source enters the try block
NextSource ==
    /\ pc = "loop"
    /\ k < Len(sources)
    /\ outcomes' = Append(outcomes, [source |-> source, status |-> "started",
                                     chunks |-> 0, added |-> 0])
    /\ pc' = "fetch"
    /\ UNCHANGED <<config, store, calls, sources, k, attempt, content, packer, j,
                   total_chunks, err, result, fetch_log, indexed_at_call, query>>

\* the loop is over: return total_chunks
ReturnTotal ==
    /\ pc = "loop"
    /\ k = Len(sources)
    /\ result' = [kind |-> "return", value |-> total_chunks]
    /\ pc' = "idle"
    /\ k' = 0
    /\ total_chunks' = 0
    /\ UNCHANGED <<config, store, calls, sources, attempt, content, packer, j, err,
                   fetch_log, outcomes, indexed_at_call, query>>

\* one attempt of _fetch_url_with_retry on a web source; when it returns or
\* raises, its frame (attempt) is gone
FetchUrlAttempt ==
    /\ pc = "fetch"
    /\ source \in UrlSources
    /\ \E got \in UrlAttempts :
        /\ fetch_log' = Append(fetch_log, [ev |-> "attempt", got |-> got, secs |-> 0])
        /\ IF got.kind = "ok"
           THEN /\ content' = got.text
                /\ pc' = "split"
                /\ attempt' = 0
                /\ err' = err
           ELSE IF got.exc \in TransportErrors /\ attempt < MaxRetries - 1
           THEN /\ pc' = "sleep"
                /\ UNCHANGED <<content, err, attempt>>
           ELSE /\ err' = [exc |-> got.exc, at |-> "fetch"]
                /\ pc' = "except"
                /\ attempt' = 0
                /\ content' = content
    /\ UNCHANGED <<config, store, calls, sources, k, packer, j, total_chunks, result,
                   outcomes, indexed_at_call, query>>

\* await asyncio.sleep(wait_time) returns and the for loop takes the next attempt
Sleep ==
    /\ pc = "sleep"
    /\ fetch_log' = Append(fetch_log, [ev |-> "sleep", got |-> Returned(<<>>),
                                       secs |-> WaitTime(attempt)])
    /\ attempt' = attempt + 1
    /\ pc' = "fetch"
    /\ UNCHANGED <<config, store, calls, sources, k, content, packer, j, total_chunks,
                   err, result, outcomes, indexed_at_call, query>>

\* _fetch_content on a local file
FetchFile ==
    /\ pc = "fetch"
    /\ source \in FileSources
    /\ \E got \in FileFetches(source) :
        /\ fetch_log' = Append(fetch_log, [ev |-> "attempt", got |-> got, secs |-> 0])
        /\ IF got.kind = "ok"
           THEN /\ content' = got.text
                /\ pc' = "split"
                /\ err' = err
           ELSE /\ err' = [exc |-> got.exc, at |-> "fetch"]
                /\ pc' = "except"
                /\ content' = content
    /\ UNCHANGED <<config, store, calls, sources, k, attempt, packer, j, total_chunks,
                   result, outcomes, indexed_at_call, query>>

\* _split_text: the Segmenter, and the start of _chunk_paragraphs
SplitText ==
    /\ pc = "split"
    /\ paragraphs' = SplitParagraphsWithHeadings(content)
    /\ chunks' = <<>>
    /\ beyond' = 0
    /\ cur' = <<>>
    /\ cur_tokens' = 0
    /\ i' = 0
    /\ pc' = "pack"
    /\ fetch_log' = <<>>
    /\ UNCHANGED <<config, store, calls, sources, k, attempt, content, j, total_chunks,
                   err, result, outcomes, indexed_at_call, query>>

\* a loop test that lets the accumulation exceed the budget by one token
FitsOverBudget == cur_tokens + TokensOf(paragraphs[i + 1]) <= chunk_tokens + 1 \/ cur = <<>>

\* the loop test of _chunk_paragraphs: the paragraph fits, or cur is empty
Fits == cur_tokens + TokensOf(paragraphs[i + 1]) <= chunk_tokens \/ cur = <<>>

\* while loop, "if" branch: the paragraph joins the accumulation
ChunkAccept ==
    /\ pc = "pack"
    /\ i < Len(paragraphs)
    /\ Fits
    /\ cur' = Append(cur, paragraphs[i + 1])
    /\ cur_tokens' = cur_tokens + TokensOf(paragraphs[i + 1])
    /\ i' = i + 1
    /\ UNCHANGED <<config, store, calls, pc, sources, k, attempt, content, paragraphs,
                   chunks, beyond, j, total_chunks, err, result, fetch_log, outcomes,
                   indexed_at_call, query>>

\* chunks.append(...); the list is recorded up to MaxChunks entries, which a
\* run of the loop that ends never exceeds
EmitChunk(cs, ps) == IF Len(cs) < MaxChunks THEN Append(cs, MakeChunk(ps)) ELSE cs

\* the appends beyond MaxChunks are counted modulo 2
EmitBeyond(cs, n) == IF Len(cs) < MaxChunks THEN n ELSE (n + 1) % 2

\* an "else" branch that advances the cursor past the paragraph that did not fit
ChunkEmitAdvances ==
    /\ pc = "pack"
    /\ i < Len(paragraphs)
    /\ ~Fits
    /\ chunks' = EmitChunk(chunks, cur)
    /\ beyond' = EmitBeyond(chunks, beyond)
    /\ cur' = BuildOverlap(cur, overlap_tokens).list
    /\ cur_tokens' = BuildOverlap(cur, overlap_tokens).tokens
    /\ i' = i + 1
    /\ UNCHANGED <<config, store, calls, pc, sources, k, attempt, content, paragraphs,
                   j, total_chunks, err, result, fetch_log, outcomes, indexed_at_call,
                   query>>

\* while loop, "else" branch: emit the accumulation, build the overlap
ChunkEmit ==
    /\ pc = "pack"
    /\ i < Len(paragraphs)
    /\ ~Fits
    /\ chunks' = EmitChunk(chunks, cur)
    /\ beyond' = EmitBeyond(chunks, beyond)
    /\ cur' = BuildOverlap(cur, overlap_tokens).list
    /\ cur_tokens' = BuildOverlap(cur, overlap_tokens).tokens
    /\ UNCHANGED <<config, store, calls, pc, sources, k, attempt, content, paragraphs,
                   i, j, total_chunks, err, result, fetch_log, outcomes, indexed_at_call,
                   query>>

\* an end of the loop that returns without the remaining accumulation
ChunkFinishDropsRest ==
    /\ pc = "pack"
    /\ i = Len(paragraphs)
    /\ j' = 0
    /\ pc' = "add"
    /\ UNCHANGED <<config, store, calls, sources, k, attempt, content, packer,
                   total_chunks, err, result, fetch_log, outcomes, indexed_at_call,
                   query>>

\* the loop has ended: "Process remaining chunk", return to index_documents
ChunkFinish ==
    /\ pc = "pack"
    /\ i = Len(paragraphs)
    /\ chunks' = IF cur # <<>> THEN EmitChunk(chunks, cur) ELSE chunks
    /\ beyond' = IF cur # <<>> THEN EmitBeyond(chunks, beyond) ELSE beyond
    /\ j' = 0
    /\ pc' = "add"
    /\ UNCHANGED <<config, store, calls, sources, k, attempt, content, paragraphs, i,
                   cur, cur_tokens, total_chunks, err, result, fetch_log, outcomes,
                   indexed_at_call, query>>

\* outcomes with the entry of the current source changed
Outcome(status, n_chunks, n_added) ==
    [outcomes EXCEPT ![Len(outcomes)] =
        [source |-> source, status |-> status, chunks |-> n_chunks, added |-> n_added]]

\* await self.memory.add(...) for chunk j: it returns, or it raises
AddChunk ==
    \E ok \in BOOLEAN :
        /\ pc = "add"
        /\ j < Len(chunks)
        /\ IF ok
           THEN /\ store' = Append(store, MemoryRecord(source, j, chunks[j + 1]))
                /\ j' = j + 1
                /\ outcomes' = Outcome("started", Len(chunks), j + 1)
                /\ UNCHANGED <<pc, err>>
           ELSE /\ err' = [exc |-> "StoreError", at |-> "add"]
                /\ pc' = "except"
                /\ outcomes' = Outcome("started", Len(chunks), j)
                /\ UNCHANGED <<store, j>>
        /\ UNCHANGED <<config, calls, sources, k, attempt, content, packer, total_chunks,
                       result, fetch_log, indexed_at_call, query>>

\* every chunk is added: total_chunks += len(chunks), next source
SourceDone ==
    /\ pc = "add"
    /\ j = Len(chunks)
    /\ total_chunks' = total_chunks + Len(chunks)
    /\ outcomes' = Outcome("ok", Len(chunks), j)
    /\ k' = k + 1
    /\ pc' = "loop"
    /\ ResetLocals
    /\ UNCHANGED <<config, store, calls, sources, result, indexed_at_call, query>>

\* a handler that gives up the batch at the first failed source
HandleExceptionAborts ==
    /\ pc = "except"
    /\ outcomes' = Outcome("failed", outcomes[Len(outcomes)].chunks,
                           outcomes[Len(outcomes)].added)
    /\ k' = Len(sources)
    /\ pc' = "loop"
    /\ ResetLocals
    /\ UNCHANGED <<config, store, calls, sources, total_chunks, result, indexed_at_call,
                   query>>

\* "except Exception as e": print, and the loop goes on with the next source
HandleException ==
    /\ pc = "except"
    /\ outcomes' = Outcome("failed", outcomes[Len(outcomes)].chunks,
                           outcomes[Len(outcomes)].added)
    /\ k' = k + 1
    /\ pc' = "loop"
    /\ ResetLocals
    /\ UNCHANGED <<config, store, calls, sources, total_chunks, result, indexed_at_call,
                   query>>

Next ==
    \/ InitializeVaspRagMemory
    \/ ClearExisting
    \/ ClearRaises
    \/ FilterIndexed
    \/ IndexDocuments
    \/ NextSource
    \/ ReturnTotal
    \/ FetchUrlAttempt
    \/ Sleep
    \/ FetchFile
    \/ SplitText
    \/ ChunkAccept
    \/ ChunkEmit
    \/ ChunkFinish
    \/ AddChunk
    \/ SourceDone
    \/ HandleException

\* one call, of either entry point, on the empty store
Spec == Init /\ [][Next]_vars

\* the indexer of the two-call runs: the smallest budget, no overlap
RunsInit == Init /\ chunk_tokens = 1 /\ overlap_tokens = 0

RunsNext == Next \/ InitializeAgain

\* a first call of either entry point, then initialize_vasp_rag_memory again
RunsSpec == RunsInit /\ [][RunsNext]_vars

\* the program runs on while it can: it is one thread, and each await
\* (a clear, a query, a fetch attempt, a sleep, a store add) returns or raises.
\* SplitText is the only step that takes pc from "split" to "pack", and its
\* fairness is stated on that change of pc.
FairSpec ==
    /\ Spec
    /\ WF_vars(ClearExisting \/ ClearRaises \/ FilterIndexed)
    /\ WF_vars(NextSource \/ ReturnTotal \/ SourceDone \/ HandleException)
    /\ WF_vars(FetchUrlAttempt \/ Sleep \/ FetchFile)
    /\ WF_pc(pc = "split" /\ pc' = "pack")
    /\ WF_vars(ChunkAccept \/ ChunkEmit \/ ChunkFinish)
    /\ WF_vars(AddChunk)

(***************************************************************************)
(* One fetch, stage by stage: _fetch_url_content for a web source and the  *)
(* file branch of _fetch_content for a local file.  fetch_log records what *)
(* each stage did.                                                         *)
(***************************************************************************)
\* the variables a stage of a fetch leaves alone
around_fetch ==
    <<config, store, calls, sources, k, attempt, packer, j, total_chunks, result,
      outcomes, indexed_at_call, query>>

\* index_documents(srcs) on the empty store has entered the try block for its
\* first source and stands at pc = at, with the text fetched so far
AtFirstSource(srcs, at, fetched) ==
    /\ chunk_tokens \in 1..MaxChunkTokens
    /\ overlap_tokens \in 0..MaxOverlapTokens
    /\ store = <<>>
    /\ calls = <<[fn |-> "index_documents", clear_existing |-> FALSE,
                  skip_indexed |-> FALSE]>>
    /\ pc = at
    /\ sources = srcs
    /\ k = 0
    /\ attempt = 0
    /\ content = fetched
    /\ paragraphs = <<>>
    /\ i = 0
    /\ cur = <<>>
    /\ cur_tokens = 0
    /\ chunks = <<>>
    /\ beyond = 0
    /\ j = 0
    /\ total_chunks = 0
    /\ err = NoErr
    /\ result = NoResult
    /\ fetch_log = <<>>
    /\ outcomes = <<[source |-> srcs[1], status |-> "started", chunks |-> 0, added |-> 0]>>
    /\ indexed_at_call = {}
    /\ query = "none"

\* the fetch of the source starts
FetchInit ==
    \E s \in UrlSources \cup FileSources :
        AtFirstSource(<<s>>, IF s \in UrlSources THEN "stage_a" ELSE "file", <<>>)

\* what stage (a) did, as a fetch outcome (kind "none": it returned None)
ExtractOutcome(ra) ==
    IF ra.raised THEN Raised("Exception")
    ELSE IF ra.result.some THEN Returned(ra.result.text)
    ELSE [kind |-> "none", text |-> <<>>, exc |-> ""]

\* a stage (a) whose result is never returned
TryExtractFallsThrough ==
    /\ pc = "stage_a"
    /\ \E ra \in StageA :
          fetch_log' = Append(fetch_log, [ev |-> "a", got |-> ExtractOutcome(ra)])
    /\ pc' = "stage_b"
    /\ UNCHANGED <<content, err, around_fetch>>

\* stage (a): fetch_url, extract; "if result: return result"
TryExtract ==
    /\ pc = "stage_a"
    /\ \E ra \in StageA :
        /\ fetch_log' = Append(fetch_log, [ev |-> "a", got |-> ExtractOutcome(ra)])
        /\ IF ~ra.raised /\ Truthy(ra.result)
           THEN content' = ra.result.text /\ pc' = "fetched"
           ELSE content' = content /\ pc' = "stage_b"
    /\ UNCHANGED <<err, around_fetch>>

\* stage (b): return convert_url_to_markdown(url)
TryConvert ==
    /\ pc = "stage_b"
    /\ \E rb \in StageB :
        /\ fetch_log' = Append(fetch_log,
                               [ev |-> "b",
                                got |-> IF rb.raised THEN Raised("ValueError")
                                        ELSE Returned(rb.text)])
        /\ IF ~rb.raised
           THEN content' = rb.text /\ pc' = "fetched"
           ELSE content' = content /\ pc' = "stage_c"
    /\ UNCHANGED <<err, around_fetch>>

\* stage (c): session.get, raise_for_status, response.text(), _strip_html
TryTransport ==
    /\ pc = "stage_c"
    /\ \E rc \in StageC :
        /\ fetch_log' = Append(fetch_log,
                               [ev |-> "c", html |-> rc.html,
                                got |-> IF rc.exc # "" THEN Raised(rc.exc)
                                        ELSE Returned(rc.text)])
        /\ IF rc.exc # ""
           THEN /\ err' = [exc |-> rc.exc, at |-> "fetch"]
                /\ pc' = "fetch_raised"
                /\ content' = content
           ELSE /\ content' = IF rc.html THEN StripHtml(rc.text) ELSE rc.text
                /\ pc' = "fetched"
                /\ err' = err
    /\ UNCHANGED around_fetch

\* what f.read() can do
FileReads == {[raised |-> TRUE, text |-> <<>>]} \cup {[raised |-> FALSE, text |-> t] : t \in Docs}

\* source_path.exists(), is_supported_format(source_path)
FileCheck ==
    /\ pc = "file"
    /\ \E exists \in BOOLEAN :
        /\ fetch_log' = Append(fetch_log,
                               [ev |-> "exists",
                                got |-> IF exists THEN Returned(<<>>)
                                        ELSE Raised("FileNotFoundError")])
        /\ IF ~exists
           THEN err' = [exc |-> "FileNotFoundError", at |-> "fetch"] /\ pc' = "fetch_raised"
           ELSE err' = err /\ pc' = IF IsSupportedFormat(source) THEN "convert" ELSE "read"
    /\ UNCHANGED <<content, around_fetch>>

\* return convert_file_to_markdown(source_path), for a supported extension
ConvertSupported ==
    /\ pc = "convert"
    /\ \E r \in StageB :
        /\ fetch_log' = Append(fetch_log,
                               [ev |-> "convert",
                                got |-> IF r.raised THEN Raised("ValueError")
                                        ELSE Returned(r.text)])
        /\ IF r.raised
           THEN /\ err' = [exc |-> "ValueError", at |-> "fetch"]
                /\ pc' = "fetch_raised"
                /\ content' = content
           ELSE /\ content' = r.text
                /\ pc' = "fetched"
                /\ err' = err
    /\ UNCHANGED around_fetch

\* content = await f.read(), and the test whether it looks like HTML
ReadFile ==
    /\ pc = "read"
    /\ \E r \in FileReads :
        /\ fetch_log' = Append(fetch_log,
                               [ev |-> "read",
                                got |-> IF r.raised THEN Raised("UnicodeDecodeError")
                                        ELSE Returned(r.text)])
        /\ IF r.raised
           THEN /\ err' = [exc |-> "UnicodeDecodeError", at |-> "fetch"]
                /\ pc' = "fetch_raised"
                /\ content' = content
           ELSE /\ content' = r.text
                /\ pc' = IF LooksLikeHtml(r.text) THEN "convert_html" ELSE "fetched"
                /\ err' = err
    /\ UNCHANGED around_fetch

\* a conversion of an HTML-looking file whose failure is not caught
ConvertHtmlRaises ==
    /\ pc = "convert_html"
    /\ \E r \in StageB :
        /\ fetch_log' = Append(fetch_log,
                               [ev |-> "convert",
                                got |-> IF r.raised THEN Raised("ValueError")
                                        ELSE Returned(r.text)])
        /\ IF r.raised
           THEN /\ err' = [exc |-> "ValueError", at |-> "fetch"]
                /\ pc' = "fetch_raised"
                /\ content' = content
           ELSE /\ content' = r.text
                /\ pc' = "fetched"
                /\ err' = err
    /\ UNCHANGED around_fetch

\* try: return convert_file_to_markdown(source_path)
\* except Exception: return self._strip_html(content)
ConvertHtml ==
    /\ pc = "convert_html"
    /\ \E r \in StageB :
        /\ fetch_log' = Append(fetch_log,
                               [ev |-> "convert",
                                got |-> IF r.raised THEN Raised("ValueError")
                                        ELSE Returned(r.text)])
        /\ content' = IF r.raised THEN StripHtml(content) ELSE r.text
    /\ pc' = "fetched"
    /\ UNCHANGED <<err, around_fetch>>

FetchNext ==
    \/ TryExtract
    \/ TryConvert
    \/ TryTransport
    \/ FileCheck
    \/ ConvertSupported
    \/ ReadFile
    \/ ConvertHtml

\* one fetch of one source, stage by stage
FetchSpec == FetchInit /\ [][FetchNext]_vars

(***************************************************************************)
(* _split_text on its own: the Segmenter and the Packer applied to one     *)
(* text, for every text of SegDocs.                                        *)
(***************************************************************************)
\* the longest texts built from SegLines, in lines
MaxLines == 3

\* the lines the texts are built from: a blank line, text lines (one with
\* trailing blanks, one of five characters), headings of level 1 and 2
SegLines ==
    { <<>>,
      <<"a">>,
      <<"a", " ", " ", " ">>,
      <<"b", "b", "b", "b", "b">>,
      <<"#">>,
      <<"#", "#", "g">> }

\* every text of 1..MaxLines lines of SegLines
LineTexts ==
    {Join(ls, <<"\n">>) : ls \in UNION {[1..n -> SegLines] : n \in 1..MaxLines}}

\* the texts _split_text is applied to: those of Docs and LineTexts, a text
\* of one blank, a level-1 heading followed by two level-3 headings, and
\* three paragraphs of one token
SegDocs ==
    Docs \cup LineTexts \cup
    { <<" ">>,
      <<"#", "a", "\n", "#", "#", "#", "b", "\n", "#", "#", "#", "c", "\n", "x">>,
      <<"a", "\n", "\n", "b", "\n", "\n", "c">> }

\* chunks = self._split_text(content) is about to run for the text
SplitInit == \E t \in SegDocs : AtFirstSource(<<"doc.md">>, "split", t)

SplitNext == SplitText \/ ChunkAccept \/ ChunkEmit \/ ChunkFinish

SplitSpec == SplitInit /\ [][SplitNext]_vars

(***************************************************************************)
(* The Packer over paragraphs of one, two and three tokens, with budgets   *)
(* up to MaxPackTokens and overlaps up to MaxPackOverlap (an overlap may   *)
(* be as large as the budget or larger: the constructor checks neither).   *)
(***************************************************************************)
\* the largest chunk_tokens and overlap_tokens, and the most pieces of a text
MaxPackTokens == 3

MaxPackOverlap == 3

MaxPieces == 4

\* the pieces a text is made of, separated by blank lines: text of 1, 8 and
\* 12 characters (1, 2 and 3 tokens) and a heading line
PackPieces ==
    { <<"a">>,
      <<"b", "b", "b", "b", "b", "b", "b", "b">>,
      <<"c", "c", "c", "c", "c", "c", "c", "c", "c", "c", "c", "c">>,
      <<"#", " ", "h">> }

\* every text of 1..MaxPieces pieces
PackDocs ==
    {Join(ps, <<"\n", "\n">>) : ps \in UNION {[1..n -> PackPieces] : n \in 1..MaxPieces}}

\* DocumentIndexer(chunk_tokens=ct, overlap_tokens=ot).index_documents(["doc.md"])
\* is about to run chunks = self._split_text(content) for the text
PackInit ==
    \E t \in PackDocs : \E ct \in 1..MaxPackTokens : \E ot \in 0..MaxPackOverlap :
        /\ chunk_tokens = ct
        /\ overlap_tokens = ot
        /\ store = <<>>
        /\ calls = <<[fn |-> "index_documents", clear_existing |-> FALSE,
                      skip_indexed |-> FALSE]>>
        /\ pc = "split"
        /\ sources = <<"doc.md">>
        /\ k = 0
        /\ attempt = 0
        /\ content = t
        /\ paragraphs = <<>>
        /\ i = 0
        /\ cur = <<>>
        /\ cur_tokens = 0
        /\ chunks = <<>>
        /\ beyond = 0
        /\ j = 0
        /\ total_chunks = 0
        /\ err = NoErr
        /\ result = NoResult
        /\ fetch_log = <<>>
        /\ outcomes = <<[source |-> "doc.md", status |-> "started", chunks |-> 0,
                         added |-> 0]>>
        /\ indexed_at_call = {}
        /\ query = "none"

PackSpec == PackInit /\ [][SplitNext]_vars

\* the Packer's loop is a sequence of steps of one thread: each of them is
\* taken when it can be
FairPackSpec ==
    /\ PackSpec
    /\ WF_pc(pc = "split" /\ pc' = "pack")
    /\ WF_vars(ChunkAccept \/ ChunkEmit \/ ChunkFinish)

(***************************************************************************)
(* Properties.                                                             *)
(***************************************************************************)
\* a call of index_documents has returned
Returned_ == pc = "idle" /\ result.kind = "return"

\* the sources that entered the try block in this call, in order
Started == [n \in 1..Len(outcomes) |-> outcomes[n].source]

RECURSIVE SumAdded(_)
\* the number of store add calls that completed in this call
SumAdded(os) == IF os = <<>> THEN 0 ELSE Head(os).added + SumAdded(Tail(os))

\* C1: index_documents eventually returns: every call that is in progress
\* comes to its end, whatever the source list, the fetched texts and the
\* chunk_tokens/overlap_tokens configuration.
C1_BatchAlwaysCompletes == (pc # "idle") ~> (pc = "idle")

\* C2: every source of the list is attempted exactly once and in list order,
\* whatever happened to the sources before it: while the loop runs the sources
\* started so far are the first k (or k + 1) of the list, and when
\* index_documents has returned they are the whole list, each one finished as
\* stored or as failed.
C2_EverySourceAttemptedInOrder ==
    /\ pc = "loop" => Started = SubSeq(sources, 1, k)
    /\ pc \in {"fetch", "sleep", "split", "pack", "add", "except"}
          => Started = SubSeq(sources, 1, k + 1)
    /\ Returned_ =>
          /\ Started = sources
          /\ \A n \in 1..Len(outcomes) : outcomes[n].status \in {"ok", "failed"}

\* C2 witness: a call has returned in which the first source failed and the
\* second one, after it, was stored
C2_FailureThenSuccess ==
    /\ Returned_
    /\ Len(outcomes) = 2
    /\ outcomes[1].status = "failed"
    /\ outcomes[2].status = "ok"

\* C3: the value index_documents returns is the number of store add calls
\* that completed during the call.
C3_ReturnCountsCompletedAdds == Returned_ => result.value = SumAdded(outcomes)

\* C4: per-source atomicity: when index_documents has returned, each source
\* has a record for every one of its chunks in the store, or none.
C4_AllChunksOrNone ==
    Returned_ =>
        \A n \in 1..Len(outcomes) :
            outcomes[n].added = outcomes[n].chunks \/ outcomes[n].added = 0

\* the record the claim expects for chunk number n (1-based position) of src
ExpectedRecord(src, n, chunk) ==
    [content          |-> chunk.content,
     source           |-> src,
     chunk_index      |-> n - 1,
     has_heading_path |-> chunk.heading_path.some,
     heading_path     |-> chunk.heading_path.text]

\* C5: while the chunks of a source are added, the last j records of the store
\* are the first j chunks, in chunk order, each with the source, chunk_index
\* 0, 1, ..., j - 1 and a heading_path exactly when the chunk's is not null;
\* a source counts as stored only when all of its chunks were added.
C5_OneAddPerChunkInOrder ==
    /\ pc = "add" =>
          /\ j <= Len(chunks)
          /\ j <= Len(store)
          /\ SubSeq(store, Len(store) - j + 1, Len(store))
                = [n \in 1..j |-> ExpectedRecord(source, n, chunks[n])]
    /\ \A n \in 1..Len(outcomes) :
          outcomes[n].status = "ok" => outcomes[n].added = outcomes[n].chunks

\* C5 witness: a source of two chunks, the first under a heading, is stored
C5_TwoChunksAdded ==
    /\ pc = "add"
    /\ j = 2
    /\ Len(chunks) = 2
    /\ chunks[1].heading_path.some

\* the call in progress (or the last one) is initialize_vasp_rag_memory in
\* skip mode: skip_indexed set, clear_existing unset
SkipMode(c) ==
    c.fn = "initialize_vasp_rag_memory" /\ c.skip_indexed /\ ~c.clear_existing

\* skip mode was run, has ended, and is run a second time
SecondSkipRun == Len(calls) = 2 /\ SkipMode(calls[1]) /\ SkipMode(calls[2])

\* the second run adds no record and returns 0
AddsNothing ==
    /\ SumAdded(outcomes) = 0
    /\ pc = "idle" => result = [kind |-> "return", value |-> 0]

\* every source of the list had a record when the call was made
AllIndexedAtCall == \A n \in 1..Len(VaspSources) : VaspSources[n] \in indexed_at_call

\* C6 (as stated): the second of two skip-mode runs adds no record and returns
\* 0, whatever happened to each source in the first run.
C6_SecondRunAddsNothing == SecondSkipRun => AddsNothing

\* C6 (amended): the second of two skip-mode runs adds no record and returns 0
\* when every source of the list has a record in the store at its start and
\* its query of the store (within the query limit) does not fail.
C6_SecondRunAddsNothingWhenAllIndexed ==
    (SecondSkipRun /\ AllIndexedAtCall /\ query # "failed" /\ Len(store) <= QueryLimit)
        => AddsNothing /\ outcomes = <<>>

\* C6 witness: the second skip-mode run has returned 0, all sources indexed
C6_SecondRunReturnedZero ==
    /\ SecondSkipRun
    /\ AllIndexedAtCall
    /\ query = "ok"
    /\ pc = "idle"
    /\ result = [kind |-> "return", value |-> 0]

\* the sources of the list that had no record when the call was made, in
\* their original order
NotIndexedAtCall == SelectSeq(VaspSources, LAMBDA s : s \notin indexed_at_call)

\* the sources with a record are dropped, the others processed in order
DropsIndexed ==
    /\ \A n \in 1..Len(outcomes) : outcomes[n].source \notin indexed_at_call
    /\ query # "none" =>
          /\ sources = NotIndexedAtCall
          /\ Started = SubSeq(NotIndexedAtCall, 1, Len(Started))
          /\ Returned_ /\ NotIndexedAtCall # <<>> => Started = NotIndexedAtCall

\* C7 (as stated): in skip mode a source that has a record in the store is
\* never fetched and gets no new record, and the sources without a record are
\* processed in their original relative order.
C7_IndexedSourcesDropped == (calls # <<>> /\ SkipMode(call)) => DropsIndexed

\* C7 (amended): the same, when the query of the store (within the query
\* limit) does not fail.
C7_IndexedSourcesDroppedWhenQueried ==
    (calls # <<>> /\ SkipMode(call) /\ query # "failed" /\ Len(store) <= QueryLimit)
        => DropsIndexed

\* C7 witness: a skip-mode run that found one of the two sources indexed has
\* returned after storing the other one only
C7_OneDroppedOneStored ==
    /\ calls # <<>> /\ SkipMode(call)
    /\ query = "ok"
    /\ indexed_at_call = {VaspSources[2]}
    /\ Returned_
    /\ Len(outcomes) = 1
    /\ outcomes[1].source = VaspSources[1]
    /\ outcomes[1].status = "ok"
    /\ outcomes[1].added > 0

\* C8: with clear_existing set, nothing is fetched or added before the purge;
\* after it the store holds the records of this call only, no query is made
\* and no source is filtered out, so that the call, when it returns, has
\* processed the whole list.
C8_PurgeFirstNoFilter ==
    (calls # <<>> /\ call.fn = "initialize_vasp_rag_memory" /\ call.clear_existing) =>
        /\ query = "none"
        /\ sources = VaspSources
        /\ pc = "clear" \/ result.kind = "raise" => outcomes = <<>>
        /\ pc # "clear" /\ result.kind # "raise" => Len(store) = SumAdded(outcomes)
        /\ Returned_ => Started = VaspSources

\* C8 witness: a call with clear_existing and skip_indexed both set, made on a
\* store that had records of every source, has returned with records added
C8_ClearedAndReindexed ==
    /\ Len(calls) = 2
    /\ call.clear_existing /\ call.skip_indexed
    /\ AllIndexedAtCall
    /\ Returned_
    /\ result.value > 0

\* the attempts of the fetch in progress, oldest first
Attempts == SelectSeq(fetch_log, LAMBDA e : e.ev = "attempt")

\* a retrying fetch of a web source is in progress or has just ended
InUrlFetch ==
    /\ pc \in {"fetch", "sleep", "split"} \/ (pc = "except" /\ err.at = "fetch")
    /\ source \in UrlSources

TransportClass == {"ClientError", "ServerError", "TimeoutError"}

StagesRun == [n \in 1..Len(fetch_log) |-> fetch_log[n].ev]

\* a stage raised or returned an empty result (None or the empty string)
RaisedOrEmpty(e) == e.got.kind = "raise" \/ e.got.text = <<>>

\* C12: the stages of a web fetch run in the order a, b, c, each at most
\* once; stage b runs only after stage a raised or returned an empty result
\* and stage c only after stage b raised or returned an empty result; the text
\* of stage c is stripped of HTML when the response is HTML-like.
C12_StagesInOrder ==
    source \in UrlSources =>
        /\ StagesRun = SubSeq(<<"a", "b", "c">>, 1, Len(fetch_log))
        /\ pc = "stage_a" <=> fetch_log = <<>>
        /\ Len(fetch_log) >= 2 => RaisedOrEmpty(fetch_log[1])
        /\ Len(fetch_log) >= 3 => RaisedOrEmpty(fetch_log[2])
        /\ (pc = "fetched" /\ Len(fetch_log) = 3) =>
              content = IF fetch_log[3].html THEN StripHtml(fetch_log[3].got.text)
                        ELSE fetch_log[3].got.text
        /\ pc = "fetched" => Returned(content) \in UrlAttempts
        /\ pc = "fetch_raised" => Raised(err.exc) \in UrlAttempts

\* C12 witness: stage a returned None, stage b raised, stage c fetched an
\* HTML response, which was stripped
C12_AllThreeStagesRan ==
    /\ source \in UrlSources
    /\ pc = "fetched"
    /\ Len(fetch_log) = 3
    /\ fetch_log[1].got.kind = "none"
    /\ fetch_log[2].got.kind = "raise"
    /\ fetch_log[3].html
    /\ fetch_log[3].got.text = <<"<", "b", ">", "a">>
    /\ content = <<"a">>

\* a conversion of the local file was attempted and failed
ConversionFailed ==
    /\ source \in FileSources
    /\ fetch_log # <<>>
    /\ fetch_log[Len(fetch_log)].ev = "convert"
    /\ fetch_log[Len(fetch_log)].got.kind = "raise"

\* C13 (as stated): when the conversion of an existing local file fails, the
\* fetch does not fail: it returns the raw text of the file with the HTML
\* stripped, whether or not the extension is in the supported set.
C13_ConversionFailureFallsBack ==
    ConversionFailed =>
        /\ pc = "fetched"
        /\ Len(fetch_log) = 3 => content = StripHtml(fetch_log[2].got.text)

\* C13 (amended): the fallback is taken for an HTML-looking file whose
\* extension is not in the supported set; for a file of a supported extension
\* a failed conversion raises ValueError and the file is not read.
C13_FallbackForUnsupportedOnly ==
    ConversionFailed =>
        IF FileSuffix[source] \in SupportedExtensions
        THEN /\ pc = "fetch_raised"
             /\ err.exc = "ValueError"
             /\ StagesRun = <<"exists", "convert">>
        ELSE /\ pc = "fetched"
             /\ StagesRun = <<"exists", "read", "convert">>
             /\ content = StripHtml(fetch_log[2].got.text)

\* C13 witness: page.log holds "<b>a", its conversion fails, "a" is returned
C13_StrippedAfterFailedConversion ==
    /\ ConversionFailed
    /\ source = "page.log"
    /\ fetch_log[2].got.text = <<"<", "b", ">", "a">>
    /\ pc = "fetched"
    /\ content = <<"a">>

(***************************************************************************)
(* The Segmenter, read against the text it was given.                      *)
(***************************************************************************)
\* the state of the scan before the first line
SegmentStart == [heading_stack |-> <<>>, paragraphs |-> <<>>, buf |-> <<>>, char_pos |-> 0]

\* stripped.startswith("#")
IsHeadingLine(ln) == Strip(ln) # <<>> /\ Head(Strip(ln)) = "#"

\* stripped == ""
IsBlankLine(ln) == Strip(ln) = <<>>

\* the number of leading "#" of a heading line
HeadingLevel(ln) == Len(Strip(ln)) - Len(LStripHash(Strip(ln)))

\* the title of a heading line
HeadingTitle(ln) == Strip(LStripHash(Strip(ln)))

\* the non-blank non-heading lines of a text, in order
TextLines(text) ==
    SelectSeq(SplitLines(text), LAMBDA ln : ~IsHeadingLine(ln) /\ ~IsBlankLine(ln))

\* the scan of the text produced paragraphs (the fallback did not apply)
Scanned(text) == TextLines(text) # <<>>

\* the text has been split: paragraphs is what the Segmenter returned for content
Segmented == pc \in {"pack", "add"}

RECURSIVE StillOpen(_, _)
\* the headings of the list (outermost first) that a heading of this level
\* does not close: those of a strictly shallower level
StillOpen(open, level) ==
    IF open = <<>> THEN <<>>
    ELSE IF open[Len(open)].level >= level
         THEN StillOpen(SubSeq(open, 1, Len(open) - 1), level)
         ELSE open

RECURSIVE OpenHeadings(_)
\* the headings [level, title] opened by the lines and not closed by a later
\* heading of equal or shallower level, outermost first
OpenHeadings(lines) ==
    IF lines = <<>> THEN <<>>
    ELSE LET before == OpenHeadings(SubSeq(lines, 1, Len(lines) - 1))
             ln     == lines[Len(lines)]
         IN  IF IsHeadingLine(ln)
             THEN Append(StillOpen(before, HeadingLevel(ln)),
                         [level |-> HeadingLevel(ln), title |-> HeadingTitle(ln)])
             ELSE before

\* the breadcrumb of the open headings, null when none is open
Breadcrumb(open) ==
    IF open = <<>> THEN None
    ELSE Some(Join([n \in 1..Len(open) |-> open[n].title], <<" ", ">", " ">>))

\* a paragraph is emitted between line n and line n + 1 of the text
EmitsAfter(lines, n) ==
    /\ n = Len(lines) \/ IsHeadingLine(lines[n + 1]) \/ IsBlankLine(lines[n + 1])
    /\ LET st == SegmentLines(SegmentStart, SubSeq(lines, 1, n))
       IN  FlushBuf(st, st.char_pos) # st.paragraphs

RECURSIVE BreadcrumbsFrom(_, _)
\* the breadcrumbs of the paragraphs emitted after line n or later, in order
BreadcrumbsFrom(lines, n) ==
    IF n > Len(lines) THEN <<>>
    ELSE (IF EmitsAfter(lines, n)
          THEN <<Breadcrumb(OpenHeadings(SubSeq(lines, 1, n)))>>
          ELSE <<>>) \o BreadcrumbsFrom(lines, n + 1)

\* C14: every paragraph the scan emits carries the breadcrumb of the headings
\* that occur before it and are not closed by a later heading of equal or
\* shallower level, also when heading levels are skipped; null when none is open
C14_HeadingPathIsOpenHeadings ==
    (Segmented /\ Scanned(content)) =>
        [n \in 1..Len(paragraphs) |-> paragraphs[n].heading_path]
            = BreadcrumbsFrom(SplitLines(content), 0)

\* whitespace normalization: runs of whitespace become one blank, none at the ends
Normalize(s) == Strip(CollapseSpace(s))

\* the content values of the paragraphs, in order
Contents == [n \in 1..Len(paragraphs) |-> paragraphs[n].content]

\* the text has a heading line
HasHeadingLine(text) == \E n \in 1..Len(SplitLines(text)) : IsHeadingLine(SplitLines(text)[n])

\* the contents of the paragraphs, concatenated, are the text up to whitespace
RoundTrip == Normalize(Join(Contents, <<" ">>)) = Normalize(content)

\* C15 as stated: for every non-empty text the concatenation of the contents
\* of its paragraphs reproduces the text up to whitespace normalization
C15_ContentsReproduceText == (Segmented /\ content # <<>>) => RoundTrip

\* C15, amended: for every non-empty text without a heading line the
\* concatenation of the contents of its paragraphs reproduces the text up to
\* whitespace normalization
C15_ContentsReproduceTextWithoutHeadings ==
    (Segmented /\ content # <<>> /\ ~HasHeadingLine(content)) => RoundTrip

\* a text without headings was split into three paragraphs that reproduce it
C15_ThreeParagraphsRoundTrip ==
    /\ Segmented
    /\ ~HasHeadingLine(content)
    /\ Len(paragraphs) = 3
    /\ RoundTrip

RECURSIVE ContentLines(_)
\* the lines of the contents of the paragraphs, stripped, in order
ContentLines(ps) ==
    IF ps = <<>> THEN <<>>
    ELSE [n \in 1..Len(SplitLines(Head(ps).content)) |-> Strip(SplitLines(Head(ps).content)[n])]
         \o ContentLines(Tail(ps))

\* the non-blank non-heading lines of the text, stripped, in order
StrippedTextLines(text) == [n \in 1..Len(TextLines(text)) |-> Strip(TextLines(text)[n])]

\* C16: a heading line flushes the buffer and leaves it empty, so the lines
\* of the paragraphs' contents are the non-blank non-heading lines of the
\* text, each of them once
C16_EachTextLineInOneParagraph ==
    (Segmented /\ Scanned(content)) => ContentLines(paragraphs) = StrippedTextLines(content)

\* C17: every paragraph the Segmenter returns has start <= end, and along the
\* paragraph sequence start and end are both non-decreasing
C17_OffsetsOrdered ==
    Segmented =>
        /\ \A n \in 1..Len(paragraphs) : paragraphs[n].start <= paragraphs[n].end
        /\ \A n \in 1..(Len(paragraphs) - 1) :
              /\ paragraphs[n].start <= paragraphs[n + 1].start
              /\ paragraphs[n].end <= paragraphs[n + 1].end

\* the single paragraph of the fallback
WholeText(text) == [content |-> text, heading_path |-> None, start |-> 0, end |-> Len(text)]

\* C18: the Segmenter returns at least one paragraph for every text, and for a
\* text without any text line (empty, blank lines only, headings only) exactly
\* one paragraph: the entire text, heading_path null, start 0, end the length
C18_FallbackParagraph ==
    Segmented =>
        /\ Len(paragraphs) >= 1
        /\ ~Scanned(content) => paragraphs = <<WholeText(content)>>

\* a text of heading lines only came back as one paragraph holding the text
C18_HeadingOnlyText ==
    /\ Segmented
    /\ HasHeadingLine(content)
    /\ ~Scanned(content)
    /\ paragraphs = <<WholeText(content)>>

\* the token size of a paragraph: max(1, floor(length / 4))
ParagraphTokens(p) == Max(1, Len(p.content) \div 4)

RECURSIVE SumTokens(_)
\* the sum of the token sizes of the paragraphs
SumTokens(ps) == IF ps = <<>> THEN 0 ELSE ParagraphTokens(Head(ps)) + SumTokens(Tail(ps))

\* the step appends a chunk to the Packer's output
EmitsChunk == pc = "pack" /\ (chunks' # chunks \/ beyond' # beyond)

\* C19: every chunk the Packer emits is built from the accumulation cur, and
\* cur is then one paragraph or paragraphs whose token sizes sum to at most
\* chunk_tokens, also when cur started from an overlap seed
C19_ChunkWithinBudget ==
    [][EmitsChunk =>
          /\ chunks' = EmitChunk(chunks, cur)
          /\ Len(cur) = 1 \/ (Len(cur) > 1 /\ SumTokens(cur) <= chunk_tokens)]_vars

\* "a", "b", "c" with a budget of 2 and an overlap of 1: the second chunk
\* starts from the overlap seed "b" and holds two paragraphs
C19_OverlapSeededChunk ==
    /\ pc = "add"
    /\ chunk_tokens = 2
    /\ overlap_tokens = 1
    /\ Len(paragraphs) = 3
    /\ Len(chunks) = 2
    /\ Contents = << <<"a">>, <<"b">>, <<"c">> >>
    /\ chunks[1] = MakeChunk(SubSeq(paragraphs, 1, 2))
    /\ chunks[2] = MakeChunk(SubSeq(paragraphs, 2, 3))

\* the accumulation is a single paragraph whose own token size exceeds the budget
SingleOversize(ps) == Len(ps) = 1 /\ ParagraphTokens(ps[1]) > chunk_tokens

\* the token size of the content string of the chunk built from ps
ContentTokens(ps) == ApproxTokenLen(MakeChunk(ps).content)

\* what the separators and the remainders of length / 4 add to the token size
\* of the content of a chunk of n paragraphs, at most
JoinSlack(n) == (5 * n - 2) \div 4

\* C20 as stated: the token size of the content string of every emitted chunk
\* that is not a single oversize paragraph is at most chunk_tokens
C20_ContentWithinBudget ==
    [][EmitsChunk => (SingleOversize(cur) \/ ContentTokens(cur) <= chunk_tokens)]_vars

\* C20, amended: the token size of the content string of an emitted chunk of
\* n paragraphs that is not a single oversize paragraph is at most the sum of
\* the paragraphs' token sizes plus floor((5n - 2) / 4), hence at most
\* chunk_tokens + floor((5n - 2) / 4), which is chunk_tokens for n = 1
C20_ContentWithinBudgetPlusSlack ==
    [][EmitsChunk =>
          \/ SingleOversize(cur)
          \/ /\ ContentTokens(cur) <= SumTokens(cur) + JoinSlack(Len(cur))
             /\ SumTokens(cur) <= chunk_tokens]_vars

\* a chunk of two paragraphs was emitted whose content string is one token
\* larger than the budget
C20_TwoParagraphsOverBudget ==
    /\ pc = "add"
    /\ ~HasHeadingLine(content)
    /\ Len(paragraphs) = 2
    /\ chunks = <<MakeChunk(paragraphs)>>
    /\ SumTokens(paragraphs) <= chunk_tokens
    /\ ApproxTokenLen(chunks[1].content) = chunk_tokens + 1

(***************************************************************************)
(* The Packer, read against the paragraph sequence it was given.           *)
(***************************************************************************)
\* the last n paragraphs of ps
Suffix(ps, n) == SubSeq(ps, Len(ps) - n + 1, Len(ps))

\* the longest suffix of ps whose token sizes sum to at most budget
LongestSuffixWithin(ps, budget) ==
    LET fits == {n \in 0..Len(ps) : SumTokens(Suffix(ps, n)) <= budget}
    IN  Suffix(ps, CHOOSE n \in fits : \A m \in fits : m <= n)

\* the step emits a chunk inside the loop and builds the overlap seed
EmitsInLoop == EmitsChunk /\ i < Len(paragraphs)

\* C21: with overlap_tokens > 0 the paragraphs carried into the next
\* accumulation are the longest suffix of the emitted paragraph list whose
\* token sizes sum to at most overlap_tokens, in original order, and the
\* running sum starts at their sum; nothing is carried when the last
\* paragraph alone exceeds overlap_tokens
C21_OverlapIsLongestSuffix ==
    [][(EmitsInLoop /\ overlap_tokens > 0) =>
          /\ cur' = LongestSuffixWithin(cur, overlap_tokens)
          /\ cur_tokens' = SumTokens(cur')
          /\ ParagraphTokens(cur[Len(cur)]) > overlap_tokens => cur' = <<>>]_vars

\* a chunk of a 1-token and a 2-token paragraph was emitted with an overlap of
\* 1: the first paragraph would fit, the last does not, nothing is carried
C21_NothingCarriedPastLargeLast ==
    /\ pc = "pack"
    /\ overlap_tokens = 1
    /\ i = 2
    /\ Len(paragraphs) > 2
    /\ ParagraphTokens(paragraphs[1]) = 1
    /\ ParagraphTokens(paragraphs[2]) = 2
    /\ chunks = <<MakeChunk(SubSeq(paragraphs, 1, 2))>>
    /\ cur = <<>>
    /\ cur_tokens = 0

\* _chunk_paragraphs has returned its chunks
PackerReturned == pc = "add"

RECURSIVE IsPartition(_, _)
\* the chunks are built from consecutive non-empty runs of ps that, put one
\* after the other, are ps
IsPartition(cs, ps) ==
    IF cs = <<>> THEN ps = <<>>
    ELSE \E n \in 1..Len(ps) :
            /\ Head(cs) = MakeChunk(SubSeq(ps, 1, n))
            /\ IsPartition(Tail(cs), SubSeq(ps, n + 1, Len(ps)))

\* C22: without overlap every accumulation after an emitted chunk starts
\* empty, and the chunks returned partition the input: their paragraph lists,
\* concatenated in order, are the input paragraph sequence
C22_ChunksPartitionWithoutOverlap ==
    /\ (PackerReturned /\ overlap_tokens <= 0) => IsPartition(chunks, paragraphs)
    /\ (pc = "pack" /\ overlap_tokens <= 0 /\ i < Len(paragraphs) /\ ~Fits) =>
           BuildOverlap(cur, overlap_tokens).list = <<>>

\* three or more paragraphs came back as two or more chunks, without overlap
C22_SeveralChunksPartition ==
    /\ PackerReturned
    /\ overlap_tokens = 0
    /\ Len(paragraphs) >= 3
    /\ Len(chunks) >= 2
    /\ Len(chunks) < Len(paragraphs)
    /\ IsPartition(chunks, paragraphs)

RECURSIVE CoversFrom(_, _, _, _)
\* the chunks are built from non-empty contiguous runs of ps, the first of
\* them starting at or after position pf and not beyond pl + 1, every run
\* ending at or after the end of the run before it, the last at the end of ps
CoversFrom(cs, ps, pf, pl) ==
    IF cs = <<>> THEN pl = Len(ps)
    ELSE \E f \in Max(pf, 1)..(pl + 1) : \E l \in Max(f, pl)..Len(ps) :
            /\ Head(cs) = MakeChunk(SubSeq(ps, f, l))
            /\ Head(cs).start = ps[f].start
            /\ Head(cs).end = ps[l].end
            /\ CoversFrom(Tail(cs), ps, f, l)

\* C23: the chunks the Packer returns are an ordered cover of its input:
\* each is a non-empty contiguous run of the paragraph sequence with start
\* and end of its first and last paragraph, every paragraph is in a chunk,
\* and the positions of the first and last paragraphs never decrease
C23_ChunksAreOrderedCover ==
    PackerReturned => CoversFrom(chunks, paragraphs, 1, 0)

\* three paragraphs came back as two chunks that share the middle one
C23_TwoOverlappingRuns ==
    /\ PackerReturned
    /\ overlap_tokens > 0
    /\ Len(paragraphs) = 3
    /\ chunks = <<MakeChunk(SubSeq(paragraphs, 1, 2)), MakeChunk(SubSeq(paragraphs, 2, 3))>>

RECURSIVE LastNonNull(_)
\* the heading_path of the last paragraph whose heading_path is not null
LastNonNull(ps) ==
    IF ps = <<>> THEN None
    ELSE IF ps[Len(ps)].heading_path.some THEN ps[Len(ps)].heading_path
    ELSE LastNonNull(SubSeq(ps, 1, Len(ps) - 1))

RECURSIVE LastNonEmpty(_)
\* the heading_path of the last paragraph whose heading_path is neither null
\* nor the empty string
LastNonEmpty(ps) ==
    IF ps = <<>> THEN None
    ELSE IF ps[Len(ps)].heading_path.some /\ ps[Len(ps)].heading_path.text # <<>>
         THEN ps[Len(ps)].heading_path
    ELSE LastNonEmpty(SubSeq(ps, 1, Len(ps) - 1))

\* the step appends a chunk that the list of chunks records
RecordsChunk == EmitsChunk /\ Len(chunks') = Len(chunks) + 1

\* C24 as stated: the heading_path of every emitted chunk, the final one
\* included, is that of the last paragraph of the chunk with a non-null
\* heading_path, and null when no paragraph of the chunk has one
C24_HeadingOfLastNonNull ==
    [][RecordsChunk => chunks'[Len(chunks')].heading_path = LastNonNull(cur)]_vars

\* C24, amended: the heading_path of every emitted chunk, the final one
\* included, is that of the last paragraph of the chunk whose heading_path is
\* neither null nor the empty string, and null when the chunk has no such
\* paragraph
C24_HeadingOfLastNonEmpty ==
    [][RecordsChunk => chunks'[Len(chunks')].heading_path = LastNonEmpty(cur)]_vars

\* a chunk of two paragraphs, the second under a heading without title: the
\* chunk carries the heading_path of the first
C24_EmptyBreadcrumbPassedOver ==
    /\ PackerReturned
    /\ Len(paragraphs) = 2
    /\ chunks = <<MakeChunk(paragraphs)>>
    /\ paragraphs[1].heading_path.some /\ paragraphs[1].heading_path.text # <<>>
    /\ paragraphs[2].heading_path = Some(<<>>)
    /\ chunks[1].heading_path = paragraphs[1].heading_path

\* paragraph n of the input is larger than the budget
Oversize(n) ==
    /\ pc = "pack"
    /\ n <= Len(paragraphs)
    /\ ParagraphTokens(paragraphs[n]) > chunk_tokens

\* a chunk that consists of paragraph n alone, unmodified, has been emitted
EmittedAlone(n) ==
    /\ n <= Len(paragraphs)
    /\ \E c \in 1..Len(chunks) : chunks[c] = MakeChunk(<<paragraphs[n]>>)

\* C25: every input paragraph whose token size exceeds chunk_tokens is
\* eventually emitted as a chunk of exactly that paragraph, wherever it
\* stands in the sequence and for every overlap_tokens
C25_OversizeEventuallyAlone ==
    \A n \in 1..MaxPieces : Oversize(n) ~> EmittedAlone(n)

\* C27: after a chunk is emitted in the loop and the overlap seed is built,
\* the paragraph that did not fit is accepted by the next iteration (the new
\* accumulation is empty or has room for it), and the new accumulation is
\* not the paragraph list just emitted, for all chunk_tokens and overlap_tokens
C27_PackerProgress ==
    [][EmitsInLoop =>
          /\ cur' = <<>> \/ SumTokens(cur') + ParagraphTokens(paragraphs[i + 1]) <= chunk_tokens
          /\ cur' # cur]_vars

(***************************************************************************)
(* The order of the awaits of index_documents.                             *)
(***************************************************************************)
\* a fetch, its retry sleeps included, is in flight
FetchInFlight == pc \in {"fetch", "sleep"}

\* the step takes a further source of the running call into the try block
StartsFurtherSource == outcomes # <<>> /\ Len(outcomes') = Len(outcomes) + 1

\* the source is over: every chunk of it is added, or it has failed
SourceOver(o) == o.status = "failed" \/ (o.status = "ok" /\ o.added = o.chunks)

\* C26: sources are processed one at a time: the fetch of a further source
\* starts only when every source before it is over (all of its adds have
\* completed, or it has failed), the store is not written while a fetch is in
\* flight, and a step completes at most one store write
C26_OneSourceAtATime ==
    [][/\ StartsFurtherSource =>
              /\ \A n \in 1..Len(outcomes) : SourceOver(outcomes[n])
              /\ pc' = "fetch"
       /\ FetchInFlight => store' = store
       /\ Len(store') <= Len(store) + 1]_vars

\* the second source is being fetched; the two chunks of the first are stored
C26_SecondFetchAfterAdds ==
    /\ FetchInFlight
    /\ Len(outcomes) = 2
    /\ outcomes[1].status = "ok"
    /\ outcomes[1].added = 2
    /\ Len(store) = 2
    /\ outcomes[2].status = "started"

\* the fetch of a web source has returned its text
UrlFetched == pc = "fetched" /\ source \in UrlSources

\* C28: the text one attempt returns for a web source is the output of the
\* first of the stages (a), (b), (c) that yields a non-empty result: an empty
\* text of stage (a) or (b) is not returned, a later stage is attempted
C28_EmptyStageResultFallsThrough ==
    UrlFetched =>
        \A n \in 1..Len(fetch_log) :
            (fetch_log[n].ev \in {"a", "b"} /\ fetch_log[n].got = Returned(<<>>)) =>
                /\ n < Len(fetch_log)
                /\ fetch_log[n + 1].ev \in {"b", "c"}

\* C29: the offsets of every paragraph the Segmenter returns lie inside the
\* text: 0 <= start and end <= length of the text, also for the last
\* paragraph of a text that does not end with a line terminator
C29_OffsetsInsideText ==
    Segmented =>
        \A n \in 1..Len(paragraphs) :
            /\ 0 <= paragraphs[n].start
            /\ paragraphs[n].end <= Len(content)

\* C30: no record with empty content is added to the store: for every
\* fetched text, every paragraph of the Segmenter, every chunk of the Packer
\* and every record of the store has non-empty content
C30_NoEmptyContentStored ==
    /\ \A n \in 1..Len(paragraphs) : paragraphs[n].content # <<>>
    /\ \A n \in 1..Len(chunks) : chunks[n].content # <<>>
    /\ \A n \in 1..Len(store) : store[n].content # <<>>
====
